---- MODULE Spec2Model ----
(***************************************************************************)
(* Model of data/create_example_csv.py: a script that opens                *)
(* example_environments.csv for writing, writes one header row and then    *)
(* one row per (user, device, event) of three nested gen_uuids loops, each *)
(* row filled by the random_* generators.                                  *)
(*                                                                         *)
(* Environment, as modelled:                                               *)
(*  - the `random` module is a deterministic generator whose state `rng`   *)
(*    is seeded once per process; its 53-bit outputs are modelled at 16    *)
(*    bits (RngMod) by a full-period linear congruential step;             *)
(*  - uuid.uuid4() does not read `random`: it reads os.urandom.  The       *)
(*    kernel source is the variable `urandom`, a stream of values that do  *)
(*    not repeat within a run (the 2^-122 collision chance of two uuid4    *)
(*    results is not modelled);                                            *)
(*  - time.time() reads `clock`, which the environment may advance between *)
(*    any two steps of the script;                                         *)
(*  - open() and every writerow() may raise OSError.  A writerow() hands   *)
(*    the destination one whole line or raises.                            *)
(*                                                                         *)
(* A float rounded to 2 places is held in hundredths (tempC = 5730 is      *)
(* 57.3); the file holds its repr, a whole part and the fractional digits. *)
(* The decimal text of an int is held as the int.                          *)
(***************************************************************************)
EXTENDS Integers, Sequences, FiniteSets, TLC

VARIABLES
    pc,           \* position of the script: open, header, users, devices, events, done, aborted
    file,         \* lines of example_environments.csv, each a sequence of cells
    handle,       \* csvfile: "none" (not opened), "open", "closed"
    opens,        \* number of successful open() calls of the process
    error,        \* the exception propagating out of the script: "none" or "OSError"
    userGen,      \* values already yielded by gen_uuids(4) of line 49
    deviceGen,    \* values already yielded by gen_uuids(2) of line 50
    eventGen,     \* values already yielded by gen_uuids(10) of line 54
    userId, deviceId, eventId, geoLocation,
    epochS, expiry, tempC, humidityPct, pressurePa,
    rng,          \* state of the process-wide `random` generator
    seed,         \* the state `rng` was seeded with when the process started
    urandom,      \* state of the kernel source behind os.urandom
    clock,        \* wall-clock second time.time() returns
    run,          \* 1 for the first process, 2 for a second run of the script
    firstOutput   \* what the first run left in the file, kept when a second run starts

vars == <<pc, file, handle, opens, error, userGen, deviceGen, eventGen,
          userId, deviceId, eventId, geoLocation,
          epochS, expiry, tempC, humidityPct, pressurePa,
          rng, seed, urandom, clock, run, firstOutput>>

loopVars == <<userId, deviceId, eventId, geoLocation>>
eventVars == <<epochS, expiry, tempC, humidityPct, pressurePa>>
gens == <<userGen, deviceGen, eventGen>>
procVars == <<seed, run, firstOutput>>

----------------------------------------------------------------------------
(* Bounds of the model *)

\* Seconds the wall clock may advance during a run.
MaxTicks == 1
\* Wall-clock second at which the process starts.
ClockStart == 1700000000

\* The states the `random` generator may be seeded with.  From these two the
\* runs draw both ends of the humidity and pressure ranges, a tempC of 0.0
\* and the largest expiry offset.
Seeds == {3758, 51453}
\* The state of the kernel source when the first process starts, and the
\* states it may be in when a second one does.
BootEntropy == {1000}
EntropyStates == {1000, 2000}

\* What the destination may hold before the first run: nothing, or a stale
\* line of some other program.  Before a second run it holds the first
\* run's output.
Stale == <<"stale">>
PriorContents == {<<>>, <<Stale>>}

----------------------------------------------------------------------------
(* Program constants *)

NumUsers == 4
NumDevices == 2
NumEvents == 10
TimeOffsetMin == 100
TimeOffsetMax == 10000
TempScale == 120
HumidityMin == 0
HumidityMax == 100
PressureMin == 100000
PressureMax == 105000
ExpiryOffsetMin == 60
ExpiryOffsetMax == 600

fields == <<"userId", "deviceId", "eventId", "geoLocation", "epochS",
            "expiry", "tempC", "humidityPct", "pressurePa">>

\* locations of random_geoLocation; list(locations) is its keys in insertion order.
locationKeys == <<"TX", "CA", "VT">>
locations == [s \in {"TX", "CA", "VT"} |->
                CASE s = "TX" -> <<"Austin", "San Antonio">>
                  [] s = "CA" -> <<"Berkely", "Las Angeles", "San Diego">>
                  [] s = "VT" -> <<"Burlington", "St. Albans">>]

----------------------------------------------------------------------------
(* The `random` module *)

RngMod == 65536

\* One step of the generator; the new state is also the raw output.
RngNext(s) == (s * 25173 + 13849) % RngMod

\* random._randbelow(n) on raw output r: an int in 0..n-1.
randbelow(r, n) == (r * n) \div RngMod

\* random.randint(a, b) on raw output r: an int in a..b.
randint(r, a, b) == a + randbelow(r, b - a + 1)

\* random.choice(seq) on raw output r.
choice(r, seq) == seq[1 + randbelow(r, Len(seq))]

\* round(num / den, 2) of a non-negative quotient, in hundredths, ties to even.
Round2(num, den) ==
    LET h == num * 100
        q == h \div den
        r == h % den
    IN  IF 2 * r < den THEN q
        ELSE IF 2 * r > den THEN q + 1
        ELSE IF q % 2 = 0 THEN q ELSE q + 1

\* Mutant: the float is formatted with two places, as "%.2f" would.
FloatRepr_TwoPlaces(h) ==
    [whole |-> h \div 100, frac |-> <<(h % 100) \div 10, h % 10>>]

\* repr() of a float that is h hundredths: the shortest text that reads back,
\* so a trailing zero of the second place is not written (57.3, 120.0).
FloatRepr(h) ==
    LET f == h % 100
    IN  [whole |-> h \div 100,
         frac  |-> IF f % 10 = 0 THEN <<f \div 10>> ELSE <<f \div 10, f % 10>>]

----------------------------------------------------------------------------
(* The generators of the script.  Each takes the generator state s it      *)
(* starts from and returns its value and the state it leaves.              *)

\* Mutant: range(count + 1).
gen_uuids_more_Inclusive(i, count) == i <= count

\* for i in range(count): whether gen_uuids(count) yields again after i values.
gen_uuids_more(i, count) == i < count

\* str(uuid.uuid4()) with the kernel source in state u.
uuid4(u) == "uuid-" \o ToString(u)

random_geoLocation(s) ==
    LET s1 == RngNext(s)
        state == choice(s1, locationKeys)
        s2 == RngNext(s1)
        city == choice(s2, locations[state])
    IN  [val |-> "Earth" \o "-" \o "US" \o "-" \o state \o "-" \o city,
         rng |-> s2]

\* Mutant: the offset is added to the clock.
random_time_Future(s, now) ==
    LET s1 == RngNext(s)
    IN  [val |-> now + randint(s1, TimeOffsetMin, TimeOffsetMax), rng |-> s1]

random_time(s, now) ==
    LET s1 == RngNext(s)
    IN  [val |-> now - randint(s1, TimeOffsetMin, TimeOffsetMax), rng |-> s1]

random_tempC(s) ==
    LET s1 == RngNext(s)
    IN  [val |-> Round2(s1 * TempScale, RngMod), rng |-> s1]

random_humidityPct(s) ==
    LET s1 == RngNext(s)
    IN  [val |-> randint(s1, HumidityMin, HumidityMax), rng |-> s1]

random_pressurePa(s) ==
    LET s1 == RngNext(s)
    IN  [val |-> randint(s1, PressureMin, PressureMax), rng |-> s1]

\* Mutant: the offset is subtracted from the timestamp.
random_expiry_Before(s, startEpochS) ==
    LET s1 == RngNext(s)
        s2 == RngNext(s1)
        outcomes == <<0, 0, 0, startEpochS - randint(s1, ExpiryOffsetMin, ExpiryOffsetMax)>>
    IN  [val |-> choice(s2, outcomes), rng |-> s2]

\* The tuple (0, 0, 0, startEpochS + randint(60, 600)) is built first, then
\* random.choice picks one of its four entries.
random_expiry(s, startEpochS) ==
    LET s1 == RngNext(s)
        s2 == RngNext(s1)
        outcomes == <<0, 0, 0, startEpochS + randint(s1, ExpiryOffsetMin, ExpiryOffsetMax)>>
    IN  [val |-> choice(s2, outcomes), rng |-> s2]

----------------------------------------------------------------------------
(* The file object *)

\* Mutant: open(path, 'a'), which keeps what the file held.
OpenW_Append(old) == old

\* open(path, 'w') on a destination holding `old`: the file is truncated.
OpenW(old) == <<>>

\* envwriter.writerow(row): one line appended.
writerow(f, row) == Append(f, row)

\* Mutant: a plain open() with no close: the file object is left as it is.
WithExit_Leak(h) == h

\* Leaving the with block, normally or by an exception: csvfile is closed.
WithExit(h) == "closed"

\* Mutant: epochS and expiry change places in the list.
DataRow_Swapped(uid, did, eid, geo, ep, ex, tc, hp, pp) ==
    <<uid, did, eid, geo, ex, ep, FloatRepr(tc), hp, pp>>

\* The list of line 61, each cell as csv.writer writes it.
DataRow(uid, did, eid, geo, ep, ex, tc, hp, pp) ==
    <<uid, did, eid, geo, ep, ex, FloatRepr(tc), hp, pp>>

----------------------------------------------------------------------------
Init ==
    /\ pc = "open"
    /\ file \in PriorContents
    /\ handle = "none"
    /\ opens = 0
    /\ error = "none"
    /\ userGen = 0 /\ deviceGen = 0 /\ eventGen = 0
    /\ userId = "" /\ deviceId = "" /\ eventId = "" /\ geoLocation = ""
    /\ epochS = 0 /\ expiry = 0 /\ tempC = 0 /\ humidityPct = 0 /\ pressurePa = 0
    /\ seed \in Seeds
    /\ rng = seed
    /\ urandom \in BootEntropy
    /\ clock = ClockStart
    /\ run = 1
    /\ firstOutput = <<>>

\* Line 43, open succeeds.
OpenOk ==
    /\ pc = "open"
    /\ file' = OpenW(file)
    /\ handle' = "open"
    /\ opens' = opens + 1
    /\ pc' = "header"
    /\ UNCHANGED <<error, gens, loopVars, eventVars, rng, urandom, clock, procVars>>

\* Line 43, open raises: the with block is never entered.
OpenFail ==
    /\ pc = "open"
    /\ error' = "OSError"
    /\ pc' = "aborted"
    /\ UNCHANGED <<file, handle, opens, gens, loopVars, eventVars, rng, urandom, clock, procVars>>

\* Lines 44-49: the header is written and the user generator is created.
WriteHeaderOk ==
    /\ pc = "header"
    /\ file' = writerow(file, fields)
    /\ userGen' = 0
    /\ pc' = "users"
    /\ UNCHANGED <<handle, opens, error, deviceGen, eventGen, loopVars, eventVars,
                   rng, urandom, clock, procVars>>

\* Line 47 raises: the with block is left by the exception.
WriteHeaderFail ==
    /\ pc = "header"
    /\ error' = "OSError"
    /\ handle' = WithExit(handle)
    /\ pc' = "aborted"
    /\ UNCHANGED <<file, opens, gens, loopVars, eventVars, rng, urandom, clock, procVars>>

\* Lines 49-50: the next user id is pulled and the device generator is created.
NextUser ==
    /\ pc = "users"
    /\ gen_uuids_more(userGen, NumUsers)
    /\ userId' = uuid4(urandom)
    /\ urandom' = urandom + 1
    /\ userGen' = userGen + 1
    /\ deviceGen' = 0
    /\ pc' = "devices"
    /\ UNCHANGED <<file, handle, opens, error, eventGen, deviceId, eventId, geoLocation,
                   eventVars, rng, clock, procVars>>

\* Line 49, the generator is exhausted: the with block ends and the script with it.
UsersExhausted ==
    /\ pc = "users"
    /\ ~gen_uuids_more(userGen, NumUsers)
    /\ handle' = WithExit(handle)
    /\ pc' = "done"
    /\ UNCHANGED <<file, opens, error, gens, loopVars, eventVars, rng, urandom, clock, procVars>>

\* Lines 50-54: the next device id is pulled, its location drawn, and the
\* event generator created.
NextDevice ==
    /\ pc = "devices"
    /\ gen_uuids_more(deviceGen, NumDevices)
    /\ deviceId' = uuid4(urandom)
    /\ urandom' = urandom + 1
    /\ deviceGen' = deviceGen + 1
    /\ LET g == random_geoLocation(rng)
       IN  /\ geoLocation' = g.val
           /\ rng' = g.rng
    /\ eventGen' = 0
    /\ pc' = "events"
    /\ UNCHANGED <<file, handle, opens, error, userGen, userId, eventId,
                   eventVars, clock, procVars>>

\* Line 50, the generator is exhausted: back to the user loop.
DevicesExhausted ==
    /\ pc = "devices"
    /\ ~gen_uuids_more(deviceGen, NumDevices)
    /\ pc' = "users"
    /\ UNCHANGED <<file, handle, opens, error, gens, loopVars, eventVars,
                   rng, urandom, clock, procVars>>

\* Mutant: the event id is pulled once per device, before its loop.
GenerateEvent_OneId ==
    /\ pc = "events"
    /\ gen_uuids_more(eventGen, NumEvents)
    /\ eventId' = IF eventGen = 0 THEN uuid4(urandom) ELSE eventId
    /\ urandom' = IF eventGen = 0 THEN urandom + 1 ELSE urandom
    /\ eventGen' = eventGen + 1
    /\ LET t == random_time(rng, clock)
           x == random_expiry(t.rng, t.val)
           c == random_tempC(x.rng)
           h == random_humidityPct(c.rng)
           p == random_pressurePa(h.rng)
       IN  /\ epochS' = t.val
           /\ expiry' = x.val
           /\ tempC' = c.val
           /\ humidityPct' = h.val
           /\ pressurePa' = p.val
           /\ rng' = p.rng
    /\ UNCHANGED <<userGen, deviceGen, userId, deviceId, geoLocation, clock, procVars>>

\* Mutant: humidityPct is drawn from random.SystemRandom, which reads
\* os.urandom and not the seeded generator.
GenerateEvent_SystemRandom ==
    /\ pc = "events"
    /\ gen_uuids_more(eventGen, NumEvents)
    /\ eventId' = uuid4(urandom)
    /\ urandom' = urandom + 1
    /\ eventGen' = eventGen + 1
    /\ LET t == random_time(rng, clock)
           x == random_expiry(t.rng, t.val)
           c == random_tempC(x.rng)
           p == random_pressurePa(c.rng)
       IN  /\ epochS' = t.val
           /\ expiry' = x.val
           /\ tempC' = c.val
           /\ humidityPct' = HumidityMin + (urandom % (HumidityMax - HumidityMin + 1))
           /\ pressurePa' = p.val
           /\ rng' = p.rng
    /\ UNCHANGED <<userGen, deviceGen, userId, deviceId, geoLocation, clock, procVars>>

\* Lines 54-60: the next event id is pulled and the five values generated.
GenerateEvent ==
    /\ pc = "events"
    /\ gen_uuids_more(eventGen, NumEvents)
    /\ eventId' = uuid4(urandom)
    /\ urandom' = urandom + 1
    /\ eventGen' = eventGen + 1
    /\ LET t == random_time(rng, clock)
           x == random_expiry(t.rng, t.val)
           c == random_tempC(x.rng)
           h == random_humidityPct(c.rng)
           p == random_pressurePa(h.rng)
       IN  /\ epochS' = t.val
           /\ expiry' = x.val
           /\ tempC' = c.val
           /\ humidityPct' = h.val
           /\ pressurePa' = p.val
           /\ rng' = p.rng
    /\ UNCHANGED <<userGen, deviceGen, userId, deviceId, geoLocation, clock, procVars>>

\* Mutant: random_geoLocation() is called in the event loop, once per row.
NextEvent_GeoPerEvent ==
    /\ pc = "events"
    /\ gen_uuids_more(eventGen, NumEvents)
    /\ eventId' = uuid4(urandom)
    /\ urandom' = urandom + 1
    /\ eventGen' = eventGen + 1
    /\ LET g == random_geoLocation(rng)
           t == random_time(g.rng, clock)
           x == random_expiry(t.rng, t.val)
           c == random_tempC(x.rng)
           h == random_humidityPct(c.rng)
           p == random_pressurePa(h.rng)
       IN  /\ geoLocation' = g.val
           /\ epochS' = t.val
           /\ expiry' = x.val
           /\ tempC' = c.val
           /\ humidityPct' = h.val
           /\ pressurePa' = p.val
           /\ rng' = p.rng
    /\ file' = writerow(file, DataRow(userId, deviceId, eventId', geoLocation',
                                      epochS', expiry', tempC', humidityPct', pressurePa'))
    /\ UNCHANGED <<userGen, deviceGen, userId, deviceId, clock, procVars,
                   pc, handle, opens, error>>

\* Lines 54-61, the row is written.
NextEvent ==
    /\ GenerateEvent
    /\ file' = writerow(file, DataRow(userId, deviceId, eventId', geoLocation,
                                      epochS', expiry', tempC', humidityPct', pressurePa'))
    /\ UNCHANGED <<pc, handle, opens, error>>

\* Lines 54-61, writerow raises: the with block is left by the exception.
NextEventFail ==
    /\ GenerateEvent
    /\ error' = "OSError"
    /\ handle' = WithExit(handle)
    /\ pc' = "aborted"
    /\ UNCHANGED <<file, opens>>

\* Line 54, the generator is exhausted: back to the device loop.
EventsExhausted ==
    /\ pc = "events"
    /\ ~gen_uuids_more(eventGen, NumEvents)
    /\ pc' = "devices"
    /\ UNCHANGED <<file, handle, opens, error, gens, loopVars, eventVars,
                   rng, urandom, clock, procVars>>

\* The wall clock advances while the script runs.
Tick ==
    /\ pc \notin {"done", "aborted"}
    /\ clock < ClockStart + MaxTicks
    /\ clock' = clock + 1
    /\ UNCHANGED <<pc, file, handle, opens, error, gens, loopVars, eventVars,
                   rng, urandom, procVars>>

\* A step of the script.
Step ==
    \/ OpenOk
    \/ OpenFail
    \/ WriteHeaderOk
    \/ WriteHeaderFail
    \/ NextUser
    \/ UsersExhausted
    \/ NextDevice
    \/ DevicesExhausted
    \/ NextEvent
    \/ NextEventFail
    \/ EventsExhausted

Next == Step \/ Tick

Spec == Init /\ [][Next]_vars

\* The script is run a second time after a first run has completed: a new
\* process, whose `random` generator is seeded as the first one was, whose
\* clock reads as it did for the first, and whose os.urandom is in whatever
\* state the kernel source is in by then.
Rerun ==
    /\ pc = "done"
    /\ run = 1
    /\ run' = 2
    /\ firstOutput' = file
    /\ rng' = seed
    /\ urandom' \in EntropyStates
    /\ pc' = "open"
    /\ handle' = "none"
    /\ opens' = 0
    /\ userGen' = 0 /\ deviceGen' = 0 /\ eventGen' = 0
    /\ userId' = "" /\ deviceId' = "" /\ eventId' = "" /\ geoLocation' = ""
    /\ epochS' = 0 /\ expiry' = 0 /\ tempC' = 0 /\ humidityPct' = 0 /\ pressurePa' = 0
    /\ UNCHANGED <<file, error, seed, clock>>

PairNext == Step \/ Rerun

\* Two runs of the script with the same seed under a clock that stands still.
PairSpec == Init /\ [][PairNext]_vars

----------------------------------------------------------------------------
(* Reading the file *)

\* The lines this run has put in the file: open() emptied it.
Written == IF handle = "none" THEN <<>> ELSE file

\* Whether a line is the header line.
IsHeader(row) ==
    /\ Len(row) = Len(fields)
    /\ \A k \in 1..4 : row[k] = fields[k]
    /\ row = fields

\* The positions of the data rows written so far.
DataLines == 2..Len(Written)

\* Position of a column in a row.
col == [n \in {fields[k] : k \in 1..Len(fields)} |-> CHOOSE k \in 1..Len(fields) : fields[k] = n]

\* The value of a tempC cell, in hundredths.
CellHundredths(c) ==
    c.whole * 100 + (IF Len(c.frac) = 1 THEN c.frac[1] * 10 ELSE c.frac[1] * 10 + c.frac[2])

Terminal == {"done", "aborted"}

\* A data row has just been appended by this step.
RowAppended == pc = "events" /\ Len(file') = Len(file) + 1

\* The last line of the file.
Last(f) == f[Len(f)]

----------------------------------------------------------------------------
(* C1 *)

Has81Lines ==
    /\ Len(file) = 1 + NumUsers * NumDevices * NumEvents
    /\ Len(file) = 81
    /\ IsHeader(file[1])
    /\ \A i \in 2..Len(file) : Len(file[i]) = Len(fields) /\ ~IsHeader(file[i])

\* Steps of the script from leaving a device's event loop, a user's device
\* loop and the user loop to the end of each, when no I/O call fails.
PerDevice == 1 + NumEvents + 1
PerUser == 1 + NumDevices * PerDevice + 1
UserLoopLeft == (NumUsers - userGen) * PerUser + 1
DeviceLoopLeft == (NumDevices - deviceGen) * PerDevice + 1

\* The number of steps the script has yet to take to its end when no I/O
\* call fails; 0 when it has ended or was aborted.
StepsLeft ==
    CASE pc = "open" -> 2 + NumUsers * PerUser + 1
      [] pc = "header" -> 1 + NumUsers * PerUser + 1
      [] pc = "users" -> UserLoopLeft
      [] pc = "devices" -> DeviceLoopLeft + UserLoopLeft
      [] pc = "events" -> (NumEvents - eventGen) + 1 + DeviceLoopLeft + UserLoopLeft
      [] OTHER -> 0

\* C1: every run in which no I/O call fails terminates, and at its end the
\* file holds exactly 81 lines, the header followed by 80 data rows,
\* whatever the generators and the clock returned and whatever the file held
\* before.  Termination: the script, which is the only thread of its
\* process, can take a step in every state but the final ones, each of its
\* steps lowers the natural number StepsLeft, and the only other steps are
\* those of the clock, which change nothing the script's control reads; the
\* run ends in `done` unless a step raised OSError.
C1_Terminates81 ==
    /\ [](pc = "done" => Has81Lines)
    /\ [](StepsLeft \in Nat)
    /\ [](pc \in Terminal <=> StepsLeft = 0)
    /\ [](pc \notin Terminal => ENABLED Step)
    /\ [](pc \in Terminal => (pc = "done" <=> error = "none"))
    /\ [][\/ StepsLeft' < StepsLeft
          \/ (clock' # clock /\ UNCHANGED <<pc, gens, file, error>>)]_vars

\* A run during which the clock advanced has completed with no I/O failure.
C1_Witness == pc = "done" /\ error = "none" /\ Len(file) = 81 /\ clock > ClockStart

----------------------------------------------------------------------------
(* C2 *)

UserIds == {file[i][col["userId"]] : i \in DataLines}
DeviceIds == {file[i][col["deviceId"]] : i \in DataLines}

\* C2: in the completed output the data rows group under exactly 4 userId
\* values, each userId has exactly 2 deviceId values, each deviceId is in
\* exactly 10 rows, and no deviceId is under two userId values.
C2_Grouping ==
    pc = "done" =>
        /\ Cardinality(UserIds) = 4
        /\ \A u \in UserIds :
              Cardinality({file[i][col["deviceId"]] : i \in {j \in DataLines : file[j][col["userId"]] = u}}) = 2
        /\ \A d \in DeviceIds :
              Cardinality({i \in DataLines : file[i][col["deviceId"]] = d}) = 10
        /\ \A i, j \in DataLines :
              file[i][col["deviceId"]] = file[j][col["deviceId"]]
                  => file[i][col["userId"]] = file[j][col["userId"]]

C2_Witness == pc = "done" /\ Cardinality(DeviceIds) = 8 /\ Cardinality(UserIds) = 4

----------------------------------------------------------------------------
(* C3 *)

\* No deviceId is written with two locations: there are as many
\* (deviceId, geoLocation) pairs in the data rows as there are deviceIds.
SameDeviceSameGeo ==
    Cardinality({<<file[i][col["deviceId"]], file[i][col["geoLocation"]]>> : i \in DataLines})
        = Cardinality({file[i][col["deviceId"]] : i \in DataLines})

\* C3: at every point of the run two data rows with the same deviceId carry
\* the same geoLocation: the location is drawn in the step that pulls the
\* deviceId, is not drawn again while that deviceId is current, and is the
\* one every row of the device is written with.
C3_GeoPerDevice ==
    /\ []SameDeviceSameGeo
    /\ [][/\ (deviceId' = deviceId => geoLocation' = geoLocation)
          /\ (RowAppended =>
                /\ Last(file')[col["deviceId"]] = deviceId
                /\ Last(file')[col["geoLocation"]] = geoLocation
                /\ geoLocation' = geoLocation)]_vars

\* Two devices with different locations are in the file, one with all 10 rows.
C3_Witness ==
    \E i, j \in DataLines :
        /\ j = i + NumEvents
        /\ file[i][col["deviceId"]] # file[j][col["deviceId"]]
        /\ file[i][col["geoLocation"]] # file[j][col["geoLocation"]]
        /\ file[i][col["deviceId"]] = file[j - 1][col["deviceId"]]

----------------------------------------------------------------------------
(* C4 *)

\* C4: in every data row expiry is 0 or lies from epochS + 60 to epochS + 600
\* of the same row, so a nonzero expiry is strictly greater than epochS.
C4_ExpiryAfterEpoch ==
    \A i \in DataLines :
        LET t == file[i][col["epochS"]]
            v == file[i][col["expiry"]]
        IN  \/ v = 0
            \/ (t + 60 <= v /\ v <= t + 600 /\ v > t)

\* The file holds a row with no expiry and a row with one.
C4_Witness ==
    /\ \E i \in DataLines : file[i][col["expiry"]] = 0
    /\ \E i \in DataLines : file[i][col["expiry"]] > file[i][col["epochS"]]

----------------------------------------------------------------------------
(* C5 *)

EventIds == {file[i][col["eventId"]] : i \in DataLines}

\* The first data line of each device written so far.
DeviceStarts == {i \in DataLines : (i - 2) % NumEvents = 0}
\* The first data line of each user written so far.
UserStarts == {i \in DataLines : (i - 2) % (NumDevices * NumEvents) = 0}

\* C5: the eventId values of the data rows are pairwise distinct, and so are
\* the deviceId values of different devices and the userId values of
\* different users: every identifier pulled from gen_uuids is a new one in
\* its role.  When the run is complete that is 80, 8 and 4 values.
C5_IdsDistinct ==
    /\ Cardinality(EventIds) = Cardinality(DataLines)
    /\ Cardinality({file[i][col["deviceId"]] : i \in DeviceStarts}) = Cardinality(DeviceStarts)
    /\ Cardinality({file[i][col["userId"]] : i \in UserStarts}) = Cardinality(UserStarts)
    /\ pc = "done" =>
          /\ Cardinality(EventIds) = 80
          /\ Cardinality(DeviceIds) = 8
          /\ Cardinality(UserIds) = 4

C5_Witness == pc = "done" /\ Cardinality(EventIds) = 80 /\ Cardinality(DeviceStarts) = 8

----------------------------------------------------------------------------
(* C6 *)

InRanges(row) ==
    /\ 0 <= row[col["humidityPct"]] /\ row[col["humidityPct"]] <= 100
    /\ 100000 <= row[col["pressurePa"]] /\ row[col["pressurePa"]] <= 105000
    /\ 0 <= CellHundredths(row[col["tempC"]])
    /\ CellHundredths(row[col["tempC"]]) <= 120 * 100

\* C6 as stated: in every data row humidityPct is in 0..100, pressurePa in
\* 100000..105000 and tempC in 0..120, and tempC is written with exactly 2
\* fractional digits.
C6_ExactlyTwoDigits ==
    \A i \in DataLines :
        /\ InRanges(file[i])
        /\ Len(file[i][col["tempC"]].frac) = 2

\* C6 as amended: in every data row humidityPct is in 0..100, pressurePa in
\* 100000..105000 and tempC in 0..120; tempC is a multiple of 0.01 written
\* in its shortest form, with 1 or 2 fractional digits, and never with a
\* trailing zero in the second place.
C6_AtMostTwoDigits ==
    \A i \in DataLines :
        LET c == file[i][col["tempC"]]
        IN  /\ InRanges(file[i])
            /\ Len(c.frac) \in {1, 2}
            /\ \A k \in 1..Len(c.frac) : c.frac[k] \in 0..9
            /\ Len(c.frac) = 2 => c.frac[2] # 0

\* A row whose tempC is written with one fractional digit, and one with two.
C6_Witness ==
    /\ \E i \in DataLines : Len(file[i][col["tempC"]].frac) = 1 /\ InRanges(file[i])
    /\ \E i \in DataLines : Len(file[i][col["tempC"]].frac) = 2 /\ InRanges(file[i])

----------------------------------------------------------------------------
(* C7 *)

\* The value each column name stands for when a row is written.
Values ==
    [userId |-> userId, deviceId |-> deviceId, eventId |-> eventId,
     geoLocation |-> geoLocation, epochS |-> epochS, expiry |-> expiry,
     tempC |-> FloatRepr(tempC), humidityPct |-> humidityPct, pressurePa |-> pressurePa]

HeaderFirstOnly ==
    \A i \in 1..Len(Written) :
        /\ Len(file[i]) = 9
        /\ IsHeader(file[i]) <=> i = 1

\* C7: the header is written once and before any data row: the first line
\* written is the header and no later line is; every line has 9 cells; and
\* every data row holds, cell by cell, the values of userId, deviceId,
\* eventId, geoLocation, epochS, expiry, tempC, humidityPct, pressurePa, in
\* the order of the header.
C7_HeaderAndOrder ==
    /\ [](HeaderFirstOnly /\ (pc \in {"users", "devices", "events", "done"} => Len(file) >= 1))
    /\ [][RowAppended =>
            \A k \in 1..9 : Last(file')[k] = Values'[file'[1][k]]]_vars
    /\ [][(handle = "open" /\ handle' = "open" /\ Len(file) >= 1) => file'[1] = file[1]]_vars

C7_Witness ==
    /\ pc = "done"
    /\ IsHeader(file[1])
    /\ Cardinality({i \in 1..Len(file) : IsHeader(file[i])}) = 1
    /\ Last(file)[col["pressurePa"]] = pressurePa

----------------------------------------------------------------------------
(* C8 *)

C8_State ==
    /\ error # "none" <=> pc = "aborted"
    /\ pc = "done" => Len(file) = 1 + 80
    /\ opens <= 1
    /\ handle = "none" <=> opens = 0
    /\ (pc \in Terminal /\ opens = 1) => handle = "closed"
    /\ handle = "closed" => pc \in Terminal
    /\ \A i \in 1..Len(Written) : Len(file[i]) = 9

\* C8: the run completes all 80 rows or is aborted by an I/O failure.  When
\* open fails nothing is written and no file object exists; when a write
\* fails that step leaves the file as it was, and nothing is written after
\* it; every line in the file is a whole row; the destination is opened at
\* most once and, once opened, is closed in every final state.
C8_AbortOrComplete ==
    /\ []C8_State
    /\ [][/\ (error' # "none" => file' = file /\ pc' = "aborted")
          /\ (pc \in Terminal /\ run' = run => UNCHANGED <<file, pc, handle, opens, error>>)
          /\ (handle = "none" /\ pc' = "aborted" => handle' = "none" /\ opens' = 0)]_vars

\* A run aborted by a failed write in the middle of the rows.
C8_Witness ==
    /\ pc = "aborted" /\ handle = "closed" /\ error = "OSError"
    /\ Len(file) > 1 /\ Len(file) < 81

----------------------------------------------------------------------------
(* C9 *)

BothComplete == run = 2 /\ pc = "done"

\* C9 as stated: a second run with the same seed and the same clock leaves
\* the same 81 lines as the first, the identifier columns included.
C9_ByteIdentical == BothComplete => file = firstOutput

\* C9 as amended: a second run with the same seed and the same clock leaves
\* 81 lines with the same header and, line by line, the same geoLocation,
\* epochS, expiry, tempC, humidityPct and pressurePa as the first.
C9_SameButIds ==
    BothComplete =>
        /\ Len(file) = Len(firstOutput)
        /\ Len(file) = 81
        /\ file[1] = firstOutput[1]
        /\ \A i \in 2..Len(file) :
              \A n \in {"geoLocation", "epochS", "expiry", "tempC", "humidityPct", "pressurePa"} :
                  file[i][col[n]] = firstOutput[i][col[n]]

\* Both runs are complete and their identifier columns differ.
C9_Witness ==
    /\ BothComplete
    /\ file[2][col["userId"]] # firstOutput[2][col["userId"]]
    /\ file[2][col["epochS"]] = firstOutput[2][col["epochS"]]

----------------------------------------------------------------------------
(* C10 *)

\* C10: every epochS written is the clock read in the step that writes it
\* minus an offset from 100 to 10000, the generator's next draw, so it is
\* strictly in the past; every epochS in the file is at least the start of
\* the run minus 10000 and at most the present minus 100.
C10_EpochInPast ==
    /\ [](\A i \in DataLines :
            /\ ClockStart - 10000 <= file[i][col["epochS"]]
            /\ file[i][col["epochS"]] <= clock - 100)
    /\ [][RowAppended =>
            /\ clock' = clock
            /\ Last(file')[col["epochS"]] = epochS'
            /\ epochS' = clock - randint(RngNext(rng), 100, 10000)
            /\ 100 <= clock - epochS' /\ clock - epochS' <= 10000
            /\ epochS' < clock]_vars

\* Rows written before and after the clock advanced.
C10_Witness ==
    /\ clock > ClockStart
    /\ Len(Written) >= 3
    /\ Last(file)[col["epochS"]] < file[2][col["epochS"]]
    /\ Last(file)[col["epochS"]] >= ClockStart - 10000

====
